---- MODULE Spec2Model ----
(***************************************************************************)
(* A model of json-simple-filter (src/src/lib.rs): parse turns a filter    *)
(* string into a list of Filter structs, apply evaluates the list against  *)
(* a JSON value.  Strings are TLA+ strings, taken apart with Head, Tail,   *)
(* SubSeq and \o; i64 values are exact integers held as sign and magnitude  *)
(* (little-endian bytes), so that the 64-bit range of the code's           *)
(* arithmetic is kept.                                                     *)
(***************************************************************************)
EXTENDS Integers, Sequences, FiniteSets, TLC

VARIABLES
    overflow_checks, \* the build: TRUE panics on i64 overflow (debug), FALSE wraps (release)
    segments,        \* the clauses filter_string was written from
    filter_string,   \* parse's argument
    v,               \* apply's JSON value
    pc,              \* "start", "apply", "done"
    parsed,          \* what parse did: not called, returned, panicked
    filters,         \* apply's filter list
    idx,             \* filters apply's loop has passed
    ret,             \* what apply did: "none", "true", "false", "panic"
    last             \* the locals of the loop iteration apply ran last

vars == <<overflow_checks, segments, filter_string, v, pc, parsed, filters, idx, ret, last>>

(***************************************************************************)
(* Exact integers: mag is a little-endian sequence of bytes without        *)
(* leading zero bytes, neg the sign (zero is never negative).              *)
(***************************************************************************)
RECURSIVE NatNorm(_)
NatNorm(a) ==
    IF a = <<>> THEN <<>>
    ELSE IF a[Len(a)] = 0 THEN NatNorm(SubSeq(a, 1, Len(a) - 1))
    ELSE a

RECURSIVE NatOf(_)
NatOf(n) == IF n = 0 THEN <<>> ELSE <<n % 256>> \o NatOf(n \div 256)

NatByte(a, i) == IF i <= Len(a) THEN a[i] ELSE 0

RECURSIVE NatCmpFrom(_, _, _)
NatCmpFrom(a, b, i) ==
    IF i = 0 THEN 0
    ELSE IF NatByte(a, i) < NatByte(b, i) THEN -1
    ELSE IF NatByte(a, i) > NatByte(b, i) THEN 1
    ELSE NatCmpFrom(a, b, i - 1)

NatCmp(a, b) == NatCmpFrom(a, b, IF Len(a) > Len(b) THEN Len(a) ELSE Len(b))

RECURSIVE NatAddFrom(_, _, _, _)
NatAddFrom(a, b, i, carry) ==
    IF i > Len(a) /\ i > Len(b)
    THEN (IF carry = 0 THEN <<>> ELSE <<carry>>)
    ELSE LET t == NatByte(a, i) + NatByte(b, i) + carry
         IN  <<t % 256>> \o NatAddFrom(a, b, i + 1, t \div 256)

NatAdd(a, b) == NatNorm(NatAddFrom(a, b, 1, 0))

\* a - b for a >= b
RECURSIVE NatSubFrom(_, _, _, _)
NatSubFrom(a, b, i, borrow) ==
    IF i > Len(a) THEN <<>>
    ELSE LET t == NatByte(a, i) - NatByte(b, i) - borrow
         IN  IF t < 0 THEN <<t + 256>> \o NatSubFrom(a, b, i + 1, 1)
             ELSE <<t>> \o NatSubFrom(a, b, i + 1, 0)

NatSub(a, b) == NatNorm(NatSubFrom(a, b, 1, 0))

\* a * k for one byte-sized or small factor k
RECURSIVE NatScaleFrom(_, _, _, _)
NatScaleFrom(a, k, i, carry) ==
    IF i > Len(a) THEN NatOf(carry)
    ELSE LET t == a[i] * k + carry
         IN  <<t % 256>> \o NatScaleFrom(a, k, i + 1, t \div 256)

NatScale(a, k) == NatNorm(NatScaleFrom(a, k, 1, 0))

RECURSIVE NatMul(_, _)
NatMul(a, b) ==
    IF b = <<>> THEN <<>>
    ELSE NatAdd(NatScale(a, b[1]), NatNorm(<<0>> \o NatMul(a, Tail(b))))

\* the low 8 bytes: the value modulo 2^64
NatLow64(a) == NatNorm(SubSeq(a, 1, IF Len(a) < 8 THEN Len(a) ELSE 8))

Pow63 == <<0, 0, 0, 0, 0, 0, 0, 128>>
Pow64 == <<0, 0, 0, 0, 0, 0, 0, 0, 1>>

MkInt(neg, mag) == [neg |-> neg /\ mag # <<>>, mag |-> mag]

\* a small integer of the model as an exact integer
IntOf(n) == IF n < 0 THEN MkInt(TRUE, NatOf(-n)) ELSE MkInt(FALSE, NatOf(n))

IntMulExact(x, y) == MkInt(x.neg # y.neg, NatMul(x.mag, y.mag))

\* -1, 0, 1 as x <, =, > y
IntCmp(x, y) ==
    IF x.neg /\ ~y.neg THEN -1
    ELSE IF ~x.neg /\ y.neg THEN 1
    ELSE IF x.neg THEN NatCmp(y.mag, x.mag)
    ELSE NatCmp(x.mag, y.mag)

\* i64::MIN <= x <= i64::MAX
InI64(x) ==
    \/ NatCmp(x.mag, Pow63) < 0
    \/ x.neg /\ x.mag = Pow63

\* the two's complement value of x's low 64 bits
WrapI64(x) ==
    LET low == NatLow64(x.mag)
        u   == IF x.neg /\ low # <<>> THEN NatSub(Pow64, low) ELSE low
    IN  IF NatCmp(u, Pow63) < 0 THEN MkInt(FALSE, u)
        ELSE MkInt(TRUE, NatSub(Pow64, u))

I64Max == MkInt(FALSE, <<255, 255, 255, 255, 255, 255, 255, 127>>)
I64Min == MkInt(TRUE, Pow63)

(***************************************************************************)
(* Option<T>, serde_json::Value, and the string operations parse uses.     *)
(***************************************************************************)
None == [some |-> FALSE]
Some(x) == [some |-> TRUE, val |-> x]

\* Value::Number holding an i64
JInt(x) == [t |-> "number", i64 |-> Some(x)]
\* Value::Number that is no i64 (an f64, or a u64 above i64::MAX)
JFloat == [t |-> "number", i64 |-> None]
JString(s) == [t |-> "string", s |-> s]
JNull == [t |-> "null"]

\* Value::as_i64 and Value::as_str
AsI64(val) == IF val.t = "number" THEN val.i64 ELSE None
AsStr(val) == IF val.t = "string" THEN Some(val.s) ELSE None
\* Value::get(&str) on an object
Get(obj, field) == IF field \in DOMAIN obj THEN Some(obj[field]) ELSE None

Whitespace == {" ", "\t", "\n", "\r"}
Digits == <<"0", "1", "2", "3", "4", "5", "6", "7", "8", "9">>
IsDigit(c) == \E d \in 1..10 : Digits[d] = c
DigitVal(c) == (CHOOSE d \in 1..10 : Digits[d] = c) - 1

StartsWith(s, pat) == Len(s) >= Len(pat) /\ SubSeq(s, 1, Len(pat)) = pat

\* str::split(pat): the pieces between the non-overlapping matches of pat
RECURSIVE SplitFrom(_, _, _)
SplitFrom(s, pat, cur) ==
    IF s = "" THEN <<cur>>
    ELSE IF StartsWith(s, pat)
    THEN <<cur>> \o SplitFrom(SubSeq(s, Len(pat) + 1, Len(s)), pat, "")
    ELSE SplitFrom(Tail(s), pat, cur \o Head(s))

Split(s, pat) == SplitFrom(s, pat, "")

\* str::split_whitespace: the non-empty pieces between runs of whitespace
RECURSIVE SplitWhitespaceFrom(_, _)
SplitWhitespaceFrom(s, cur) ==
    LET piece == IF cur = "" THEN <<>> ELSE <<cur>>
    IN  IF s = "" THEN piece
        ELSE IF Head(s) \in Whitespace THEN piece \o SplitWhitespaceFrom(Tail(s), "")
        ELSE SplitWhitespaceFrom(Tail(s), cur \o Head(s))

SplitWhitespace(s) == SplitWhitespaceFrom(s, "")

RECURSIVE TrimStartMatches(_, _)
TrimStartMatches(s, c) ==
    IF s # "" /\ Head(s) = c THEN TrimStartMatches(Tail(s), c) ELSE s

RECURSIVE TrimEndMatches(_, _)
TrimEndMatches(s, c) ==
    IF s # "" /\ SubSeq(s, Len(s), Len(s)) = c THEN TrimEndMatches(SubSeq(s, 1, Len(s) - 1), c) ELSE s

TrimMatches(s, c) == TrimEndMatches(TrimStartMatches(s, c), c)

\* the digits of str::parse::<i64>, most significant first, each step checked
\* against the i64 range as checked_mul / checked_add (checked_sub) do
RECURSIVE ParseDigits(_, _, _)
ParseDigits(s, neg, acc) ==
    IF s = "" THEN Some(MkInt(neg, acc))
    ELSE IF ~IsDigit(Head(s)) THEN None
    ELSE LET next == NatAdd(NatScale(acc, 10), NatOf(DigitVal(Head(s))))
         IN  IF InI64(MkInt(neg, next)) THEN ParseDigits(Tail(s), neg, next) ELSE None

\* str::parse::<i64>().ok(): an optional sign, then at least one digit
ParseI64(s) ==
    IF s = "" THEN None
    ELSE IF Head(s) \in {"+", "-"}
    THEN (IF Len(s) = 1 THEN None ELSE ParseDigits(Tail(s), Head(s) = "-", <<>>))
    ELSE ParseDigits(s, FALSE, <<>>)

(***************************************************************************)
(* parse                                                                   *)
(***************************************************************************)
Delimiter == " AND "

\* parts[0], parts[1], parts[2] index a Vec of fewer than three elements
IndexPanics(filter_part) == Len(SplitWhitespace(filter_part)) < 3

MultiplierOf(operand_parts) ==
    IF Len(operand_parts) = 2 THEN ParseI64(operand_parts[1]) ELSE None

\* FieldOf, were the field kept when the multiplier does not parse
FieldOfAlways(field_parts, multiplier_field) ==
    Some(TrimStartMatches(field_parts[Len(field_parts)], "."))

FieldOf(field_parts, multiplier_field) ==
    IF Len(field_parts) = 1 \/ multiplier_field.some
    THEN Some(TrimStartMatches(field_parts[Len(field_parts)], "."))
    ELSE None

\* ValueTextOf, were the quotes not trimmed
ValueTextOfUntrimmed(value_parts) == value_parts[Len(value_parts)]

ValueTextOf(value_parts) == TrimMatches(value_parts[Len(value_parts)], "'")

ValueFieldOf(value) ==
    IF StartsWith(value, ".") THEN Some(TrimStartMatches(value, ".")) ELSE None

\* ValueOf, were a literal stored beside a field reference too
ValueOfAlways(value, value_field) ==
    IF ParseI64(value).some THEN Some(JInt(ParseI64(value).val)) ELSE Some(JString(value))

\* ValueOf, were every literal stored as a string
ValueOfString(value, value_field) ==
    IF ~value_field.some THEN Some(JString(value)) ELSE None

ValueOf(value, value_field) ==
    IF ~value_field.some
    THEN (IF ParseI64(value).some THEN Some(JInt(ParseI64(value).val))
          ELSE Some(JString(value)))
    ELSE None

\* the closure mapped over the parts of the filter string
ParseFilter(filter_part) ==
    LET parts            == SplitWhitespace(filter_part)
        field_parts      == Split(parts[1], "*")
        multiplier_field == MultiplierOf(field_parts)
        value_parts      == Split(parts[3], "*")
        value            == ValueTextOf(value_parts)
        value_field      == ValueFieldOf(value)
    IN  [field            |-> FieldOf(field_parts, multiplier_field),
         operator         |-> parts[2],
         value            |-> ValueOf(value, value_field),
         value_field      |-> value_field,
         multiplier_field |-> multiplier_field,
         multiplier_value |-> MultiplierOf(value_parts)]

\* parse(filter_string): Some(filters), or the panic of an index out of bounds
parse(input) ==
    LET filter_parts == Split(input, Delimiter)
    IN  IF \E i \in 1..Len(filter_parts) : IndexPanics(filter_parts[i])
        THEN [outcome |-> "panic"]
        ELSE [outcome |-> "return",
              value   |-> Some([i \in 1..Len(filter_parts) |-> ParseFilter(filter_parts[i])])]

(***************************************************************************)
(* apply                                                                   *)
(***************************************************************************)
NoPanic(opt) == [panic |-> FALSE, opt |-> opt]

\* `v * mult` on i64: exact in range, else a panic or the wrapped product
Mul(x, mult) ==
    LET exact == IntMulExact(x, mult)
    IN  IF InI64(exact) THEN NoPanic(Some(exact))
        ELSE IF overflow_checks THEN [panic |-> TRUE, opt |-> None]
        ELSE NoPanic(Some(WrapI64(exact)))

\* val.as_i64().map(|v| v * mult)
MapMul(val, mult) ==
    IF AsI64(val).some THEN Mul(AsI64(val).val, mult) ELSE NoPanic(None)

\* filter.field.as_deref().and_then(|field| v.get(field))
FieldValue(rec, filter) ==
    IF filter.field.some THEN Get(rec, filter.field.val) ELSE None

\* filter.value_field.as_deref().and_then(|vf| v.get(vf))
ValueFieldValue(rec, filter) ==
    IF filter.value_field.some THEN Get(rec, filter.value_field.val) ELSE None

AndThenAsStr(opt) == IF opt.some THEN AsStr(opt.val) ELSE None
AndThenAsI64(opt) == IF opt.some THEN AsI64(opt.val) ELSE None

ValueStr(rec, filter) ==
    IF filter.value.some THEN AsStr(filter.value.val)
    ELSE AndThenAsStr(ValueFieldValue(rec, filter))

StringComparison(operator, f_str, value_str) ==
    IF f_str.some /\ value_str.some
    THEN CASE operator = "="  -> f_str.val = value_str.val
           [] operator = "!=" -> f_str.val # value_str.val
           [] OTHER           -> FALSE
    ELSE FALSE

NumberF(filter, f) ==
    IF filter.multiplier_field.some /\ f.some
    THEN MapMul(f.val, filter.multiplier_field.val)
    ELSE NoPanic(AndThenAsI64(f))

NumberValue(filter, value) ==
    IF filter.multiplier_value.some /\ value.some
    THEN MapMul(value.val, filter.multiplier_value.val)
    ELSE IF AndThenAsI64(value).some THEN NoPanic(AndThenAsI64(value))
    ELSE NoPanic(AndThenAsI64(filter.value))

NumberComparison(operator, f, value) ==
    IF f.some /\ value.some
    THEN CASE operator = "="  -> IntCmp(f.val, value.val) = 0
           [] operator = "!=" -> IntCmp(f.val, value.val) # 0
           [] operator = ">=" -> IntCmp(f.val, value.val) >= 0
           [] operator = ">"  -> IntCmp(f.val, value.val) > 0
           [] operator = "<=" -> IntCmp(f.val, value.val) <= 0
           [] operator = "<"  -> IntCmp(f.val, value.val) < 0
           [] OTHER           -> FALSE
    ELSE FALSE

Outcome(b) == IF b THEN "true" ELSE "false"

\* one iteration of apply's loop: its locals, and how it ended
LoopBody(rec, filter) ==
    LET f           == FieldValue(rec, filter)
        f_is_number == f.some /\ f.val.t = "number"
        value       == ValueFieldValue(rec, filter)
    IN  IF ~f_is_number
        THEN LET f_str     == AndThenAsStr(f)
                 value_str == ValueStr(rec, filter)
             IN  [f_is_number |-> FALSE, f |-> f_str, value |-> value_str,
                  comparison  |-> Outcome(StringComparison(filter.operator, f_str, value_str))]
        ELSE LET nf == NumberF(filter, f)
                 nv == NumberValue(filter, value)
             IN  IF nf.panic \/ nv.panic
                 THEN [f_is_number |-> TRUE, f |-> nf.opt, value |-> nv.opt,
                       comparison  |-> "panic"]
                 ELSE [f_is_number |-> TRUE, f |-> nf.opt, value |-> nv.opt,
                       comparison  |-> Outcome(NumberComparison(filter.operator, nf.opt, nv.opt))]

NoLocals == [f_is_number |-> FALSE, f |-> None, value |-> None, comparison |-> "none"]

(***************************************************************************)
(* The inputs.  A filter string is written from clause descriptions, which *)
(* keep what each operand was written as; JSON values and directly built   *)
(* filter lists are small sets that include those of the crate's tests.    *)
(***************************************************************************)
MaxClauses == 2

Operators == {"=", "!=", ">=", ">", "<=", "<"}

\* left operands: ["."] name, multiplier "*" ["."] name, and malformed ones
Plain(dot, name) ==
    [text |-> dot \o name, form |-> "field", name |-> name, mult |-> None]
Scaled(digits, n, dot, name) ==
    [text |-> digits \o "*" \o dot \o name, form |-> "scaled", name |-> name, mult |-> Some(n)]
BadScaled(prefix, dot, name) ==
    [text |-> prefix \o "*" \o dot \o name, form |-> "badscaled", name |-> name, mult |-> None]
OtherLeft(text) ==
    [text |-> text, form |-> "other", name |-> "", mult |-> None]

\* right operands: [multiplier "*"] then an integer, a string or "." name,
\* each bare (quote = "") or in single quotes (quote = "'")
IntLit(scale, quote, digits, n) ==
    [text |-> scale.text \o quote \o digits \o quote, form |-> "int", body |-> digits,
     lit |-> Some(JInt(n)), mult |-> scale.mult]
StrLit(scale, quote, body) ==
    [text |-> scale.text \o quote \o body \o quote, form |-> "str", body |-> body,
     lit |-> Some(JString(body)), mult |-> scale.mult]
Ref(scale, quote, name) ==
    [text |-> scale.text \o quote \o "." \o name \o quote, form |-> "ref", body |-> name,
     lit |-> None, mult |-> scale.mult]
Unscaled == [text |-> "", mult |-> None]
Times(digits, n) == [text |-> digits \o "*", mult |-> Some(n)]

Seg(left, op, right) ==
    [text |-> left.text \o " " \o op \o " " \o right.text, tokens |-> 3,
     left |-> left, op |-> op, right |-> right]
\* a clause that is not left, operator, right
Raw(text, tokens) ==
    [text |-> text, tokens |-> tokens,
     left |-> OtherLeft(""), op |-> "", right |-> StrLit(Unscaled, "", "")]

WellFormed(seg) ==
    /\ seg.tokens = 3
    /\ seg.left.form \in {"field", "scaled"}
    /\ seg.op \in Operators

Pow62 == MkInt(FALSE, <<0, 0, 0, 0, 0, 0, 0, 64>>)

Segments ==
    { Seg(Plain(".", "field"), "=", StrLit(Unscaled, "'", "hello")),
      Seg(Plain(".", "value"), ">=", IntLit(Unscaled, "", "20", IntOf(20))),
      Seg(Plain("", "a"), ">=", IntLit(Times("5", IntOf(5)), "", "20", IntOf(20))),
      Seg(Scaled("2", IntOf(2), "", "a"), ">=", Ref(Unscaled, "", "b")),
      Seg(Plain(".", "a"), "<=", Ref(Times("5", IntOf(5)), "", "b")),
      Seg(Plain("", "a"), "=", IntLit(Unscaled, "'", "50", IntOf(50))),
      Seg(BadScaled("x", "", "a"), "=", IntLit(Unscaled, "", "50", IntOf(50))),
      Seg(BadScaled("", ".", "s"), "=", StrLit(Unscaled, "'", "123")),
      Seg(OtherLeft("1*2*a"), "=", IntLit(Unscaled, "", "50", IntOf(50))),
      Seg(Plain("", "s"), "=", IntLit(Unscaled, "'", "123", IntOf(123))),
      Seg(Plain(".", "s"), "=", IntLit(Unscaled, "", "123", IntOf(123))),
      Seg(Plain("", "s"), "!=", StrLit(Unscaled, "'", "hello")),
      Seg(Plain("", "s"), "=", Ref(Unscaled, "'", "t")),
      Seg(Plain("", "s"), ">", StrLit(Unscaled, "'", "a")),
      Seg(Plain("", "s"), "=", StrLit(Unscaled, "", "99999999999999999999")),
      Seg(Scaled("4", IntOf(4), "", "big"), ">", IntLit(Unscaled, "", "0", IntOf(0))),
      Seg(Scaled("-1", IntOf(-1), ".", "big"), "<", IntLit(Unscaled, "", "+1", IntOf(1))),
      Seg(Plain("", "big"), "!=", Ref(Times("4", IntOf(4)), "", "big")),
      Seg(Plain("", "big"), "=", IntLit(Unscaled, "", "4611686018427387904", Pow62)),
      Seg(Scaled("4", IntOf(4), "", "big"), "!=", StrLit(Unscaled, "'", "text")),
      Seg(Plain("", "a"), "~", IntLit(Unscaled, "", "50", IntOf(50))),
      Seg(Scaled("4", IntOf(4), "", "big"), "~", IntLit(Unscaled, "", "0", IntOf(0))),
      Seg(Plain("", "missing"), "!=", IntLit(Unscaled, "", "1", IntOf(1))),
      Raw("", 0),
      Raw("a =", 2),
      Raw("a  =\t50 or more", 5) }

SegmentLists == UNION {[1..n -> Segments] : n \in 0..MaxClauses}

\* the clauses joined by " AND "
RECURSIVE Join(_)
Join(segs) ==
    IF segs = <<>> THEN ""
    ELSE IF Len(segs) = 1 THEN segs[1].text
    ELSE segs[1].text \o Delimiter \o Join(Tail(segs))

Values ==
    { [a |-> JInt(IntOf(50)), b |-> JInt(IntOf(20)), s |-> JString("123"),
       t |-> JString("123"), big |-> JInt(Pow62),
       field |-> JInt(IntOf(100)), hello |-> JString("world")],
      [a |-> JString("text"), b |-> JFloat, s |-> JInt(IntOf(123)),
       t |-> JNull, big |-> JInt(I64Min), value |-> JInt(IntOf(20))],
      [a |-> JFloat, s |-> JString("hello"), big |-> JInt(IntOf(-3))] }

\* impl Default for Filter
DefaultFilter ==
    [field |-> None, operator |-> "=", value |-> None, value_field |-> None,
     multiplier_field |-> None, multiplier_value |-> None]

\* filter lists built without parse, as tests::test_apply builds its own
DirectLists ==
    { <<>>,
      << [DefaultFilter EXCEPT !.field = Some("field"), !.operator = ">",
                               !.value = Some(JInt(IntOf(50)))],
         [DefaultFilter EXCEPT !.field = Some("hello"), !.value = Some(JString("world"))] >>,
      << DefaultFilter >>,
      << [DefaultFilter EXCEPT !.field = Some("a")] >>,
      << [DefaultFilter EXCEPT !.field = Some("a"), !.value = Some(JInt(IntOf(50))),
                               !.value_field = Some("t")],
         [DefaultFilter EXCEPT !.field = Some("s"), !.value = Some(JString("123")),
                               !.value_field = Some("a")] >>,
      << [DefaultFilter EXCEPT !.field = Some("a"), !.value = Some(JFloat)] >> }

(***************************************************************************)
(* The state machine: a caller parses a filter string and applies the      *)
(* result, or applies a list it built; apply runs one loop iteration per   *)
(* step.                                                                   *)
(***************************************************************************)
NotCalled == [outcome |-> "none"]

Init ==
    /\ overflow_checks \in BOOLEAN
    /\ v \in Values
    /\ \/ /\ segments \in SegmentLists
          /\ filter_string = Join(segments)
          /\ filters = <<>>
          /\ pc = "start"
       \/ /\ segments = <<>>
          /\ filter_string = ""
          /\ filters \in DirectLists
          /\ pc = "apply"
    /\ parsed = NotCalled
    /\ idx = 0
    /\ ret = "none"
    /\ last = NoLocals

\* let filters = parse(filter_string).unwrap(), a panic ending the caller
CallParse ==
    /\ pc = "start"
    /\ parsed' = parse(filter_string)
    /\ IF parsed'.outcome = "return"
       THEN filters' = parsed'.value.val /\ pc' = "apply"
       ELSE filters' = filters /\ pc' = "done"
    /\ UNCHANGED <<overflow_checks, segments, filter_string, v, idx, ret, last>>

\* ReturnsFalse, were the early return missing
ReturnsFalseNever(comparison) == FALSE

\* if !comparison { return false; }
ReturnsFalse(comparison) == comparison = "false"

\* one iteration of `for filter in filters`
ApplyStep ==
    /\ pc = "apply"
    /\ idx < Len(filters)
    /\ last' = LoopBody(v, filters[idx + 1])
    /\ IF last'.comparison = "panic" THEN ret' = "panic" /\ pc' = "done" /\ idx' = idx
       ELSE IF ReturnsFalse(last'.comparison) THEN ret' = "false" /\ pc' = "done" /\ idx' = idx
       ELSE ret' = ret /\ pc' = pc /\ idx' = idx + 1
    /\ UNCHANGED <<overflow_checks, segments, filter_string, v, parsed, filters>>

\* the loop is over: true
ApplyReturn ==
    /\ pc = "apply"
    /\ idx = Len(filters)
    /\ ret' = "true"
    /\ pc' = "done"
    /\ UNCHANGED <<overflow_checks, segments, filter_string, v, parsed, filters, idx, last>>

Next == CallParse \/ ApplyStep \/ ApplyReturn

Spec == Init /\ [][Next]_vars

(***************************************************************************)
(* The claims.                                                             *)
(***************************************************************************)
\* the filter of the loop iteration whose locals `last` holds
LastFilter == filters[IF last.comparison = "true" THEN idx ELSE idx + 1]

Evaluated == last.comparison # "none"

ParseReturned == parsed.outcome = "return" /\ parsed.value.some

\* what clause i of the list comes to against v, on its own
ClauseOutcome(i) == LoopBody(v, filters[i]).comparison

\* C1: apply returns true exactly when every clause of the list, evaluated on
\* its own against the record, succeeds; when it returns false it has stopped
\* at the first clause that fails, every clause before it having succeeded and
\* none after it having been evaluated; for the empty list it returns true.
C1_ApplyIsConjunction ==
    ret # "none" =>
        /\ ret = "true" <=> \A i \in 1..Len(filters) : ClauseOutcome(i) = "true"
        /\ ret = "false" =>
              /\ idx < Len(filters)
              /\ ClauseOutcome(idx + 1) = "false"
              /\ \A i \in 1..idx : ClauseOutcome(i) = "true"
              /\ last = LoopBody(v, filters[idx + 1])
        /\ filters = <<>> => ret = "true"

\* apply returned false at a first clause that fails although the clause after
\* it succeeds
C1_Witness ==
    /\ ret = "false"
    /\ idx = 0
    /\ Len(filters) = 2
    /\ ClauseOutcome(2) = "true"

\* C2: parse never fails: whatever the filter string, it returns Some list of
\* filters, never None and never an aborted call.
C2_ParseNeverFails ==
    parsed.outcome # "none" => ParseReturned

\* C3: for n >= 1 well-formed three-token clauses joined by " AND ", parse
\* returns n filters in source order; the i-th has the i-th clause's field name
\* without its leading '.', its operator token as written and, when the right
\* operand is a literal, that literal: a Number when its text (quotes trimmed)
\* parses as an i64, a String of the trimmed text otherwise.
C3_ParseWellFormed ==
    (/\ parsed.outcome # "none"
     /\ Len(segments) >= 1
     /\ \A i \in 1..Len(segments) : WellFormed(segments[i])) =>
        /\ ParseReturned
        /\ Len(parsed.value.val) = Len(segments)
        /\ \A i \in 1..Len(segments) :
              /\ parsed.value.val[i].field = Some(segments[i].left.name)
              /\ parsed.value.val[i].operator = segments[i].op
              /\ segments[i].right.form # "ref" =>
                    parsed.value.val[i].value = segments[i].right.lit

\* two well-formed clauses, an integer and a quoted string literal, one field
\* written with its '.', were parsed
C3_Witness ==
    /\ ParseReturned
    /\ Len(segments) = 2
    /\ \A i \in 1..2 : WellFormed(segments[i])
    /\ segments[1].right.form = "str"
    /\ segments[2].right.form = "int"
    /\ segments[1].left.text # segments[1].left.name

\* C4: in numeric mode, a clause with no value_field, a value_multiplier and an
\* integer literal is compared against the literal times value_multiplier; with
\* no value_multiplier, against the literal.
C4_LiteralIsScaled ==
    (/\ Evaluated
     /\ last.f_is_number
     /\ last.f.some
     /\ ~LastFilter.value_field.some
     /\ AndThenAsI64(LastFilter.value).some) =>
        IF LastFilter.multiplier_value.some
        THEN last.value = Some(IntMulExact(AsI64(LastFilter.value.val).val,
                                           LastFilter.multiplier_value.val))
        ELSE last.value = AsI64(LastFilter.value.val)

\* the right-hand value of a filter that has at most one of value, value_field
RightValue(rec, filter) ==
    IF filter.value_field.some THEN Get(rec, filter.value_field.val) ELSE filter.value

IsNumber(opt) == opt.some /\ opt.val.t = "number"
IsString(opt) == opt.some /\ opt.val.t = "string"

\* C5: a clause whose field is missing from the record, or whose left value is
\* a string while its right-hand value is an integer, or whose left value is a
\* number while its right-hand value is a string or no integer, makes the
\* comparison false without an error, whatever the operator.
C5_MismatchIsFalse ==
    LET left  == FieldValue(v, LastFilter)
        right == RightValue(v, LastFilter)
    IN  (/\ Evaluated
         /\ ~(LastFilter.value.some /\ LastFilter.value_field.some)
         /\ \/ ~left.some
            \/ IsString(left) /\ AndThenAsI64(right).some
            \/ IsNumber(left) /\ (IsString(right) \/ ~AndThenAsI64(right).some)) =>
            last.comparison = "false"

\* C6: the comparison is numeric exactly when the filter's field is a JSON
\* number in the record; a clause whose operator its mode does not support
\* fails, so that a list holding an operator outside the six makes apply
\* return false.
C6_UnsupportedOperatorIsFalse ==
    /\ Evaluated =>
          /\ last.f_is_number <=> IsNumber(FieldValue(v, LastFilter))
          /\ (/\ ~last.f_is_number
              /\ LastFilter.operator \notin {"=", "!="}) => last.comparison = "false"
          /\ (/\ last.f_is_number
              /\ LastFilter.operator \notin Operators) => last.comparison = "false"
    /\ (/\ ret # "none"
        /\ \E i \in 1..Len(filters) : filters[i].operator \notin Operators) =>
          ret = "false"

\* the clauses, written p*name with p no integer, that parse was given
BadScaledClauses ==
    {i \in 1..Len(segments) : segments[i].tokens = 3 /\ segments[i].left.form = "badscaled"}

\* C7: a left operand p*name whose prefix is no integer gives a filter without
\* multiplier_field whose field is still name.
C7_BadPrefixKeepsField ==
    ParseReturned =>
        \A i \in BadScaledClauses :
            /\ ~parsed.value.val[i].multiplier_field.some
            /\ parsed.value.val[i].field = Some(segments[i].left.name)

\* C7 as amended: such a filter has neither multiplier_field nor field, and
\* its comparison is false against every record.
C7_BadPrefixDropsField ==
    ParseReturned =>
        \A i \in BadScaledClauses :
            /\ ~parsed.value.val[i].multiplier_field.some
            /\ ~parsed.value.val[i].field.some
            /\ LoopBody(v, parsed.value.val[i]).comparison = "false"

\* apply returned false at a clause p*name = literal although the record's
\* name holds that literal
C7_Witness ==
    /\ ParseReturned
    /\ ret = "false"
    /\ idx + 1 \in BadScaledClauses
    /\ segments[idx + 1].op = "="
    /\ Some(v[segments[idx + 1].left.name]) = segments[idx + 1].right.lit

\* C8: every filter parse returns has exactly one of value and value_field;
\* value_field is set exactly when the right operand, its multiplier and its
\* quotes removed, begins with '.'.
C8_ValueXorValueField ==
    ParseReturned =>
        /\ \A i \in 1..Len(parsed.value.val) :
              parsed.value.val[i].value.some # parsed.value.val[i].value_field.some
        /\ \A i \in 1..Len(segments) :
              segments[i].tokens = 3 =>
                  /\ parsed.value.val[i].value_field.some <=> segments[i].right.form = "ref"
                  /\ segments[i].right.form = "ref" =>
                        parsed.value.val[i].value_field = Some(segments[i].right.body)

\* a field reference written with a multiplier or in quotes was parsed beside
\* a literal
C8_Witness ==
    /\ ParseReturned
    /\ Len(segments) = 2
    /\ segments[1].right.form = "ref"
    /\ segments[1].right.text # "." \o segments[1].right.body
    /\ segments[2].right.form = "int"
    /\ parsed.value.val[1].value_field.some
    /\ parsed.value.val[2].value.some

\* the clauses field = literal, the literal's text an i64, that parse was given
IntegerTextClauses ==
    {i \in 1..Len(segments) : /\ segments[i].tokens = 3
                              /\ segments[i].left.form = "field"
                              /\ segments[i].right.form = "int"}

\* C9: a right-hand literal whose text is an i64 is stored as a Number, in
\* quotes or not; so against a record whose field is a string, field = '123'
\* is false, also when that string is "123".
C9_IntegerTextIsNumber ==
    ParseReturned =>
        /\ \A i \in IntegerTextClauses :
              /\ parsed.value.val[i].value = segments[i].right.lit
              /\ IsString(Get(v, segments[i].left.name)) =>
                    LoopBody(v, parsed.value.val[i]).comparison = "false"
        /\ (/\ pc = "done"
            /\ Len(segments) = 1
            /\ 1 \in IntegerTextClauses
            /\ IsString(Get(v, segments[1].left.name))) =>
              ret = "false"

\* s = '123' was parsed and applied to a record whose s is "123"
C9_Witness ==
    /\ pc = "done"
    /\ ret = "false"
    /\ Len(segments) = 1
    /\ 1 \in IntegerTextClauses
    /\ segments[1].op = "="
    /\ segments[1].right.text = "'123'"
    /\ Get(v, segments[1].left.name) = Some(JString("123"))

\* C10: in numeric mode the operands apply compares are the exact products
\* field * multiplier_field and value_field * multiplier_value: the
\* multiplication neither aborts apply nor wraps.
C10_ProductsAreExact ==
    LET left  == FieldValue(v, LastFilter)
        right == ValueFieldValue(v, LastFilter)
    IN  (Evaluated /\ last.f_is_number) =>
            /\ last.comparison # "panic"
            /\ (LastFilter.multiplier_field.some /\ AndThenAsI64(left).some) =>
                  last.f = Some(IntMulExact(AsI64(left.val).val,
                                            LastFilter.multiplier_field.val))
            /\ (LastFilter.multiplier_value.some /\ AndThenAsI64(right).some) =>
                  last.value = Some(IntMulExact(AsI64(right.val).val,
                                                LastFilter.multiplier_value.val))
====
